---- MODULE Spec2Model ----
(***************************************************************************)
(* Recording lifecycle controller of koe: the RecordingStateMachine        *)
(* (state-machine.ts), the Orchestrator (orchestrator.ts) that wires the   *)
(* hotkey, the widget, the capture surface and the text insertion service  *)
(* to it, and the parts of TextInsertionService the orchestrator calls.    *)
(*                                                                         *)
(* Sequential code is modelled functionally: a handler is an operator on   *)
(* the record W of all program fields, and an action commits its result.   *)
(* Every handler also leaves a trace of what it did (ops) in lastOp.       *)
(***************************************************************************)
EXTENDS Integers, Sequences, FiniteSets, Bags, TLC

VARIABLES
    currentState,        \* RecordingStateMachine._currentState
    recordingStartTime,  \* RecordingStateMachine._recordingStartTime: <<>> is null, <<t>> is t
    now,                 \* Date.now(), in ms
    listening,           \* TRUE once the Orchestrator attached its stateChange listener
    isRecording,         \* Orchestrator.isRecording
    processingTimeout,   \* Orchestrator.processingTimeout: <<>> is null, <<id>> a timer handle
    feedbackTimeout,     \* Orchestrator.feedbackTimeout: <<>> is null, <<id>> a timer handle
    timers,              \* the runtime's armed single-shot timers: [id, kind, due]
    widgetState,         \* RecordingWidget.currentState (the last status pushed)
    capturedAppName,     \* TextInsertionService._capturedAppName: <<>> is null
    mainWindow,          \* the capture surface: "alive" or "destroyed"
    loading,             \* mainWindow.webContents.isLoading()
    pending,             \* bag of handlers suspended at an await on an OS call
    activation,          \* history since idle: completions, deliveries, captured app, timers armed
    inputs,              \* how many outside events (signals, clock ticks) have happened
    lastOp,              \* what the last handler did: [handler, entry, ops, ret]
    config,              \* GlobalHotkeyService._config: [accelerator, enabled]
    isRegistered,        \* GlobalHotkeyService._isRegistered
    keyspy,              \* the listener _keyspy refers to: "null", or its condition
    staleAttach,         \* addListener() promises of listeners already killed
    shortcuts,           \* accelerators this process holds with globalShortcut
    store,               \* ConfigService's stored hotkey: <<>> is none
    fnPressed,           \* GlobalHotkeyService._fnPressed
    errorListening,      \* TRUE once somebody called on('error', ...) on the service
    widgets,             \* RecordingWidget.widgets: display id -> its window
    displays,            \* the displays connected right now
    screenListening      \* TRUE while RecordingWidget's screen listeners are attached

vars == <<currentState, recordingStartTime, now, listening, isRecording,
          processingTimeout, feedbackTimeout, timers, widgetState,
          capturedAppName, mainWindow, loading, pending, activation, inputs, lastOp,
          config, isRegistered, keyspy, staleAttach, shortcuts, store, fnPressed,
          errorListening, widgets, displays, screenListening>>

widgetVars == <<widgets, displays, screenListening>>

hotkeyVars == <<config, isRegistered, keyspy, staleAttach, shortcuts, store, fnPressed,
                errorListening>>

orchestratorVars == <<currentState, recordingStartTime, now, listening, isRecording,
                      processingTimeout, feedbackTimeout, timers, widgetState,
                      capturedAppName, mainWindow, loading, pending, activation>>

\* ------------------------------------------------------------------ bounds
MaxInputs == 5            \* outside events (signals, clock ticks) in a run
MaxPending == 2           \* suspended handlers at a time
MaxTimers == 2            \* armed timers at a time
TickSteps == {100, 200}   \* clock steps when the machine is driven on its own
MaxLiveInputs == 4        \* outside events in a run checked for liveness
MaxCalls == 3             \* calls of the hotkey service in a run
MaxWidgetEvents == 4      \* display events and status pushes in a run
MaxParts == 3             \* '+'-separated parts of an accelerator that is validated

\* --------------------------------------------------------------- constants
minRecordingDuration == 200
PROCESSING_TIMEOUT_MS == 30000
WATCHDOG_GRACE_MS == 3000
ERROR_FEEDBACK_MS == 3000
INSERT_FEEDBACK_MS == 2000
RELOAD_DELAY_MS == 1000

RecordingState == {"idle", "recording", "processing", "inserting", "error"}

StateTrigger == {"hotkey_press", "hotkey_release", "transcription_complete",
                 "insertion_complete", "error", "reset"}

\* Mutant: the error trigger leads to the error state.
VALID_TRANSITIONS_ErrorState(state, trigger) ==
    CASE state = "idle" /\ trigger = "hotkey_press" -> "recording"
      [] state = "recording" /\ trigger = "hotkey_release" -> "processing"
      [] state = "recording" /\ trigger = "error" -> "error"
      [] state = "processing" /\ trigger = "transcription_complete" -> "inserting"
      [] state = "processing" /\ trigger = "error" -> "error"
      [] state = "inserting" /\ trigger = "insertion_complete" -> "idle"
      [] state = "inserting" /\ trigger = "error" -> "error"
      [] state = "error" /\ trigger = "reset" -> "idle"
      [] OTHER -> "none"

\* "none" stands for an absent table entry (undefined in the source).
VALID_TRANSITIONS(state, trigger) ==
    CASE state = "idle" /\ trigger = "hotkey_press" -> "recording"
      [] state = "recording" /\ trigger = "hotkey_release" -> "processing"
      [] state = "recording" /\ trigger = "error" -> "idle"
      [] state = "processing" /\ trigger = "transcription_complete" -> "inserting"
      [] state = "processing" /\ trigger = "error" -> "idle"
      [] state = "inserting" /\ trigger = "insertion_complete" -> "idle"
      [] state = "inserting" /\ trigger = "error" -> "idle"
      [] state = "error" /\ trigger = "reset" -> "idle"
      [] OTHER -> "none"

\* ------------------------------------------------------------ the world
W == [currentState |-> currentState, recordingStartTime |-> recordingStartTime,
      now |-> now, listening |-> listening, isRecording |-> isRecording,
      processingTimeout |-> processingTimeout, feedbackTimeout |-> feedbackTimeout,
      timers |-> timers, widgetState |-> widgetState,
      capturedAppName |-> capturedAppName, mainWindow |-> mainWindow,
      loading |-> loading, pending |-> pending,
      ops |-> <<>>, ret |-> "void"]

Op(o, a, b) == [op |-> o, a |-> a, b |-> b]

Log(w, o, a, b) == [w EXCEPT !.ops = Append(@, Op(o, a, b))]

Bool(b) == IF b THEN "true" ELSE "false"

\* JavaScript truthiness of a number-or-null field.
Falsy(opt) == opt = <<>> \/ opt[1] = 0

\* Mutant: the duration is only reported while recording.
getRecordingDuration_OnlyRecording(w) ==
    IF Falsy(w.recordingStartTime) \/ w.currentState # "recording"
    THEN 0 ELSE w.now - w.recordingStartTime[1]

getRecordingDuration(w) ==
    IF Falsy(w.recordingStartTime) THEN 0 ELSE w.now - w.recordingStartTime[1]

\* ------------------------------------------------------- RecordingWidget
\* updateAllWidgets(state): remember the status and broadcast it.
updateAllWidgets(w, status) ==
    Log([w EXCEPT !.widgetState = status], "widget", status, "")

\* ------------------------------------------------------------- timers
Handles(w) == {w.processingTimeout[i] : i \in DOMAIN w.processingTimeout}
                  \cup {w.feedbackTimeout[i] : i \in DOMAIN w.feedbackTimeout}

TimerIds(w) == {t.id : t \in w.timers}

\* A fresh handle: one that no armed timer and no stored handle carries.
NewTimerId(w) ==
    CHOOSE i \in 1..(Cardinality(w.timers) + 3) :
        /\ i \notin TimerIds(w) \cup Handles(w)
        /\ \A j \in 1..(i - 1) : j \in TimerIds(w) \cup Handles(w)

\* setTimeout(callback, delay): arm a single-shot timer under handle id.
setTimeout(w, id, kind, delay) ==
    Log([w EXCEPT !.timers = @ \cup {[id |-> id, kind |-> kind, due |-> w.now + delay]}],
        "setTimeout", kind, "")

\* clearTimeout(handle): disarm the timer if it has not fired yet.
\* The log names the kind of the timer disarmed ("" when the handle's timer
\* has fired already).
clearTimeout(w, handle) ==
    LET hit == {t \in w.timers : t.id = handle}
    IN  Log([w EXCEPT !.timers = @ \ hit], "clearTimeout",
            IF hit = {} THEN "" ELSE (CHOOSE t \in hit : TRUE).kind, "")

clearProcessingTimeout(w) ==
    LET w1 == IF w.processingTimeout # <<>>
              THEN [clearTimeout(w, w.processingTimeout[1]) EXCEPT !.processingTimeout = <<>>]
              ELSE w
    IN  IF w1.feedbackTimeout # <<>>
        THEN [clearTimeout(w1, w1.feedbackTimeout[1]) EXCEPT !.feedbackTimeout = <<>>]
        ELSE w1

\* ---------------------------------------------------- capture surface
isRendererReady(w) == w.mainWindow = "alive" /\ ~w.loading

stopRecordingInRenderer(w) ==
    IF isRendererReady(w) THEN Log(w, "send", "stop-recording", "") ELSE w

resetRendererRecordingState(w) ==
    IF isRendererReady(w) THEN Log(w, "send", "reset-recording-state", "") ELSE w

\* ------------------------------------------------ RecordingStateMachine
RECURSIVE emit(_, _, _)

\* Mutant: reset() announces idle even when the machine was idle.
reset_AlwaysEmits(w) ==
    LET previousState == w.currentState
        w1 == [Log(w, "reset", "", "") EXCEPT !.currentState = "idle",
                                               !.recordingStartTime = <<>>]
    IN  emit(w1, "idle", previousState)

reset(w) ==
    LET previousState == w.currentState
        w1 == [Log(w, "reset", "", "") EXCEPT !.currentState = "idle",
                                               !.recordingStartTime = <<>>]
    IN  IF previousState # "idle" THEN emit(w1, "idle", previousState) ELSE w1

\* Mutant: a surface that is not ready is only logged.
startRecordingInRenderer_NoReset(w) ==
    IF isRendererReady(w) THEN Log(w, "send", "start-recording", "") ELSE w

startRecordingInRenderer(w) ==
    IF isRendererReady(w) THEN Log(w, "send", "start-recording", "") ELSE reset(w)

\* Mutant: the listener pushes idle whatever the previous state.
onEnterIdle_AlwaysPush(w, previousState) ==
    LET w1 == [clearProcessingTimeout(w) EXCEPT !.isRecording = FALSE]
        w2 == IF previousState # "idle" THEN resetRendererRecordingState(w1) ELSE w1
    IN  updateAllWidgets(w2, "idle")

\* Mutant: the capture surface is never told to drop its recording flag.
onEnterIdle_NoRendererReset(w, previousState) ==
    LET w1 == [clearProcessingTimeout(w) EXCEPT !.isRecording = FALSE]
    IN  IF previousState # "inserting" /\ previousState # "processing"
        THEN updateAllWidgets(w1, "idle") ELSE w1

\* The listener's case 'idle'.
onEnterIdle(w, previousState) ==
    LET w1 == [clearProcessingTimeout(w) EXCEPT !.isRecording = FALSE]
        w2 == IF previousState # "idle" THEN resetRendererRecordingState(w1) ELSE w1
    IN  IF previousState # "inserting" /\ previousState # "processing"
        THEN updateAllWidgets(w2, "idle") ELSE w2

\* The Orchestrator's stateChange listener (setupStateMachineListeners).
stateChangeListener(w, state, previousState) ==
    CASE state = "recording" ->
            startRecordingInRenderer(updateAllWidgets(w, "recording"))
      [] state = "processing" ->
            LET w1 == clearProcessingTimeout(
                          stopRecordingInRenderer(updateAllWidgets(w, "processing")))
                id == NewTimerId(w1)
            IN  [setTimeout(w1, id, "watchdog", PROCESSING_TIMEOUT_MS)
                    EXCEPT !.processingTimeout = <<id>>]
      [] state = "inserting" -> clearProcessingTimeout(w)
      [] state = "idle" -> onEnterIdle(w, previousState)
      [] state = "error" -> updateAllWidgets(clearProcessingTimeout(w), "error")

\* EventEmitter.emit('stateChange', state, previousState): listeners run
\* synchronously, inside the call that emits.
emit(w, state, previousState) ==
    LET w1 == Log(w, "emit", state, previousState)
    IN  IF w.listening THEN stateChangeListener(w1, state, previousState) ELSE w1

\* Mutant: a rejected trigger throws the machine back to idle.
rejectTransition_ToIdle(w) == [w EXCEPT !.currentState = "idle", !.ret = "false"]

\* transition(): the (state, trigger) pair is not in the table.
rejectTransition(w) == [w EXCEPT !.ret = "false"]

\* transition(): hotkey_press -> recording stamps the start of the recording.
stampRecordingStart(w, trigger, nextState) ==
    IF trigger = "hotkey_press" /\ nextState = "recording"
    THEN [w EXCEPT !.recordingStartTime = <<w.now>>] ELSE w

\* Mutant: a recording of exactly the minimum duration counts as too short.
isTooShort_Inclusive(w, trigger) ==
    /\ trigger = "hotkey_release" /\ w.currentState = "recording"
    /\ getRecordingDuration(w) <= minRecordingDuration

\* transition(): hotkey_release in recording checks the minimum duration.
isTooShort(w, trigger) ==
    /\ trigger = "hotkey_release" /\ w.currentState = "recording"
    /\ getRecordingDuration(w) < minRecordingDuration

\* transition(): a too short recording goes straight back to idle.
abandonRecording(w) ==
    LET previousState == w.currentState
        w1 == [w EXCEPT !.currentState = "idle", !.recordingStartTime = <<>>]
    IN  [emit(w1, "idle", previousState) EXCEPT !.ret = "false"]

\* Mutant: the start time survives the return to idle.
commitTransition_KeepsStart(w, nextState) ==
    LET previousState == w.currentState
        w1 == [w EXCEPT !.currentState = nextState]
    IN  [emit(w1, nextState, previousState) EXCEPT !.ret = "true"]

\* transition(): the table's move is made and announced.
commitTransition(w, nextState) ==
    LET previousState == w.currentState
        w1 == [w EXCEPT !.currentState = nextState]
        w2 == IF nextState = "idle" THEN [w1 EXCEPT !.recordingStartTime = <<>>] ELSE w1
    IN  [emit(w2, nextState, previousState) EXCEPT !.ret = "true"]

transition(w, trigger) ==
    LET nextState == VALID_TRANSITIONS(w.currentState, trigger)
        w0 == Log(w, "transition", trigger, w.currentState)
    IN  IF nextState = "none" THEN rejectTransition(w0)
        ELSE LET w1 == stampRecordingStart(w0, trigger, nextState)
             IN  IF isTooShort(w1, trigger)
                 THEN abandonRecording(w1)
                 ELSE commitTransition(w1, nextState)

\* Mutant: the check is made by attempting the transition.
canTransition_Attempts(w, trigger) == transition(w, trigger)

\* canTransition(trigger): a lookup in the table.
canTransition(w, trigger) ==
    [w EXCEPT !.ret = Bool(VALID_TRANSITIONS(w.currentState, trigger) # "none")]

\* ------------------------------------------------ TextInsertionService
\* What `osascript` can report as the frontmost process; "<throw>" is a
\* failed exec.
CaptureOutcomes == {"Notes", "Koe", "<throw>"}

Texts == {" ", "hello"}

InsertionMethods == {"paste", "clipboard_only"}

\* text.trim() on the texts above.
Trim(text) == IF text = " " THEN "" ELSE text

\* !text || text.trim().length === 0
IsEmptyText(text) == text = "" \/ Trim(text) = ""

clearCapturedApp(w) == [w EXCEPT !.capturedAppName = <<>>]

copyToClipboard(w, text) == Log(w, "clipboard", text, "")

\* captureActiveApp() after its exec returned `outcome`.
captureActiveAppResult(w, outcome) ==
    IF outcome # "<throw>" /\ outcome # "" /\ outcome # "Koe" /\ outcome # "Electron"
    THEN Log([w EXCEPT !.capturedAppName = <<outcome>>], "captured", outcome, "")
    ELSE Log(w, "captured", "null", "")

copyToClipboardOnly(w, text) ==
    LET w1 == Log(w, "copyToClipboardOnly", text, "")
    IN  IF IsEmptyText(text)
        THEN [clearCapturedApp(w1) EXCEPT !.ret = "false"]
        ELSE [clearCapturedApp(Log(copyToClipboard(w1, text), "notify", "", ""))
                 EXCEPT !.ret = "true"]

Suspend(w, cont) == [w EXCEPT !.pending = @ (+) SetToBag({cont})]

Resume(w, cont) == [w EXCEPT !.pending = @ (-) SetToBag({cont})]

Cont(kind, origin, text) == [kind |-> kind, origin |-> origin, text |-> text]

\* ---------------------------------------------------------- Orchestrator
\* Mutant: the press handler submits hotkey_press before it captures.
onPress_TransitionFirst(w) ==
    CASE w.currentState = "idle" ->
            Suspend(Log([transition(w, "hotkey_press") EXCEPT !.isRecording = TRUE],
                        "captureActiveApp", "", ""),
                    Cont("capture", "press", ""))
      [] w.currentState = "recording" ->
            [transition(w, "hotkey_release") EXCEPT !.isRecording = FALSE]
      [] w.currentState = "error" ->
            Suspend(Log(reset(w), "captureActiveApp", "", ""), Cont("capture", "press", ""))
      [] OTHER -> w

\* Mutant: a press while recording starts over instead of stopping.
onPress_Restart(w) ==
    CASE w.currentState = "idle" \/ w.currentState = "recording" ->
            Suspend(Log(w, "captureActiveApp", "", ""), Cont("capture", "press", ""))
      [] w.currentState = "error" ->
            Suspend(Log(reset(w), "captureActiveApp", "", ""), Cont("capture", "press", ""))
      [] OTHER -> w

\* Mutant: every state but idle and recording is recovered from like error.
onPress_RecoverAlways(w) ==
    CASE w.currentState = "idle" ->
            Suspend(Log(w, "captureActiveApp", "", ""), Cont("capture", "press", ""))
      [] w.currentState = "recording" ->
            [transition(w, "hotkey_release") EXCEPT !.isRecording = FALSE]
      [] OTHER ->
            Suspend(Log(reset(w), "captureActiveApp", "", ""), Cont("capture", "press", ""))

\* Mutant: the press handler has no branch for the error state.
onPress_ErrorIgnored(w) ==
    CASE w.currentState = "idle" ->
            Suspend(Log(w, "captureActiveApp", "", ""), Cont("capture", "press", ""))
      [] w.currentState = "recording" ->
            [transition(w, "hotkey_release") EXCEPT !.isRecording = FALSE]
      [] OTHER -> w

\* hotkeyService.onPress callback and ipcMain 'widget-toggle-recording',
\* up to their first await.
onPress(w) ==
    CASE w.currentState = "idle" ->
            Suspend(Log(w, "captureActiveApp", "", ""), Cont("capture", "press", ""))
      [] w.currentState = "recording" ->
            [transition(w, "hotkey_release") EXCEPT !.isRecording = FALSE]
      [] w.currentState = "error" ->
            Suspend(Log(reset(w), "captureActiveApp", "", ""), Cont("capture", "press", ""))
      [] OTHER -> w

\* Mutant: the widget can start a recording but not stop one.
onWidgetToggle_StartOnly(w) ==
    CASE w.currentState = "idle" ->
            Suspend(Log(w, "captureActiveApp", "", ""), Cont("capture", "toggle", ""))
      [] OTHER -> w

\* Mutant: the widget recovers from error the way the hotkey does.
onWidgetToggle_Recover(w) ==
    CASE w.currentState = "idle" ->
            Suspend(Log(w, "captureActiveApp", "", ""), Cont("capture", "toggle", ""))
      [] w.currentState = "recording" ->
            [transition(w, "hotkey_release") EXCEPT !.isRecording = FALSE]
      [] w.currentState = "error" ->
            Suspend(Log(reset(w), "captureActiveApp", "", ""), Cont("capture", "toggle", ""))
      [] OTHER -> w

onWidgetToggle(w) ==
    CASE w.currentState = "idle" ->
            Suspend(Log(w, "captureActiveApp", "", ""), Cont("capture", "toggle", ""))
      [] w.currentState = "recording" ->
            [transition(w, "hotkey_release") EXCEPT !.isRecording = FALSE]
      [] OTHER -> w

\* ... and after `await captureActiveApp()` returned.
afterCapture(w, outcome) ==
    [transition(captureActiveAppResult(w, outcome), "hotkey_press")
        EXCEPT !.isRecording = TRUE]

\* Mutant: the feedback is success whatever the insertion reported.
afterInsertion_AlwaysSuccess(w, success) ==
    LET w1 == updateAllWidgets(w, "success")
        id == NewTimerId(w1)
    IN  [setTimeout(w1, id, "insertFeedback", INSERT_FEEDBACK_MS)
            EXCEPT !.feedbackTimeout = <<id>>]

\* The tail of 'transcription-complete' once the insertion result is in.
afterInsertion(w, success) ==
    LET w1 == updateAllWidgets(w, IF success THEN "success" ELSE "error")
        id == NewTimerId(w1)
    IN  [setTimeout(w1, id, "insertFeedback", INSERT_FEEDBACK_MS)
            EXCEPT !.feedbackTimeout = <<id>>]

\* Mutant: a failed paste makes insert() report failure.
insertAfterPaste_HardFailure(w, pasteSuccess) ==
    LET w1 == clearCapturedApp(Log(w, "simulatePaste", "", Bool(pasteSuccess)))
        w2 == IF pasteSuccess THEN w1 ELSE Log(w1, "notify", "", "")
    IN  afterInsertion(w2, pasteSuccess)

\* insert(text) after simulatePaste() returned: clear the captured app,
\* notify when the paste failed, report success; the handler goes on.
insertAfterPaste(w, pasteSuccess) ==
    LET w1 == clearCapturedApp(Log(w, "simulatePaste", "", Bool(pasteSuccess)))
        w2 == IF pasteSuccess THEN w1 ELSE Log(w1, "notify", "", "")
    IN  afterInsertion(w2, TRUE)

\* insert(text) from the clipboard write on: copy, then await simulatePaste().
insertCopyAndPaste(w, text) ==
    Suspend(copyToClipboard(w, text), Cont("paste", "complete", text))

\* insert(text) up to its first await on an OS call.
insert(w, text) ==
    IF IsEmptyText(text)
    THEN afterInsertion(clearCapturedApp(Log(w, "insert", text, "")), FALSE)
    ELSE LET w1 == Log(w, "insert", text, "")
         IN  IF w1.capturedAppName = <<>>
             THEN insertCopyAndPaste(Log(w1, "restoreFocus", "null", "false"), text)
             ELSE Suspend(Log(w1, "restoreFocus", w1.capturedAppName[1], ""),
                          Cont("focus", "complete", text))

\* Mutant: a completion is only dropped when the machine is idle.
onTranscriptionComplete_Unguarded(w, text, insertionMethod) ==
    IF w.currentState # "idle"
    THEN LET w1 == transition(w, "transcription_complete")
         IN  IF insertionMethod = "clipboard_only"
             THEN LET w2 == copyToClipboardOnly(w1, text)
                  IN  afterInsertion(w2, w2.ret = "true")
             ELSE insert(w1, text)
    ELSE w

\* ipcMain 'transcription-complete', up to its first await on an OS call.
onTranscriptionComplete(w, text, insertionMethod) ==
    IF w.currentState = "processing"
    THEN LET w1 == transition(w, "transcription_complete")
         IN  IF insertionMethod = "clipboard_only"
             THEN LET w2 == copyToClipboardOnly(w1, text)
                  IN  afterInsertion(w2, w2.ret = "true")
             ELSE insert(w1, text)
    ELSE w

\* Mutant: the error trigger is submitted as soon as the signal arrives.
onTranscriptionError_Immediate(w) ==
    transition(updateAllWidgets(w, "error"), "error")

\* ipcMain 'transcription-error'.
onTranscriptionError(w) ==
    LET w1 == updateAllWidgets(w, "error")
        id == NewTimerId(w1)
    IN  [setTimeout(w1, id, "errorFeedback", ERROR_FEEDBACK_MS)
            EXCEPT !.feedbackTimeout = <<id>>]

onHotkeyRelease(w) ==
    IF w.currentState = "recording"
    THEN [transition(w, "hotkey_release") EXCEPT !.isRecording = FALSE]
    ELSE w

handleRendererCrash(w) ==
    LET w1 == reset([w EXCEPT !.isRecording = FALSE])
    IN  IF w1.mainWindow = "alive"
        THEN setTimeout(w1, NewTimerId(w1), "reload", RELOAD_DELAY_MS)
        ELSE w1

\* The callback armed by the stateChange listener on entering processing.
onProcessingTimeout(w) ==
    IF w.currentState = "processing"
    THEN LET w1 == updateAllWidgets(w, "error")
             id == NewTimerId(w1)
         IN  [setTimeout(w1, id, "watchdogGrace", WATCHDOG_GRACE_MS)
                 EXCEPT !.feedbackTimeout = <<id>>]
    ELSE w

\* Mutant: the second stage leaves the idle push to the stateChange listener.
onWatchdogGrace_NoPush(w) ==
    IF w.currentState = "processing" THEN transition(w, "error") ELSE w

\* The callback armed by the callback above, 3 s later.
onWatchdogGrace(w) ==
    IF w.currentState = "processing"
    THEN transition(updateAllWidgets(w, "idle"), "error") ELSE w

\* Mutant: the deferred error acts whatever the state.
onErrorFeedback_Unguarded(w) ==
    transition(updateAllWidgets(w, "idle"), "error")

\* The callback armed by 'transcription-error'.
onErrorFeedback(w) ==
    IF w.currentState = "processing"
    THEN transition(updateAllWidgets(w, "idle"), "error") ELSE w

\* Mutant: the feedback callback pushes idle and submits nothing.
onInsertFeedback_NoTransition(w) ==
    IF w.currentState = "inserting" THEN updateAllWidgets(w, "idle") ELSE w

\* The callback armed at the end of 'transcription-complete'.
onInsertFeedback(w) ==
    IF w.currentState = "inserting"
    THEN transition(updateAllWidgets(w, "idle"), "insertion_complete") ELSE w

\* The callback armed by handleRendererCrash.
onReload(w) ==
    IF w.mainWindow = "alive"
    THEN Log([w EXCEPT !.loading = TRUE], "loadFile", "", "") ELSE w

\* The callback of an expired timer, by kind.
timerCallback(w, kind) ==
    CASE kind = "watchdog" -> onProcessingTimeout(w)
      [] kind = "watchdogGrace" -> onWatchdogGrace(w)
      [] kind = "errorFeedback" -> onErrorFeedback(w)
      [] kind = "insertFeedback" -> onInsertFeedback(w)
      [] kind = "reload" -> onReload(w)

\* ------------------------------------------------ GlobalHotkeyService
\* The special key, two ordinary accelerators and the empty string.
Accelerators == {"Fn", "F13", "Shift+Z", ""}

DEFAULT_HOTKEY == [accelerator |-> "Fn", enabled |-> TRUE]

HotkeyConfig == [accelerator : Accelerators, enabled : BOOLEAN]

\* Partial<HotkeyConfig>: a field is given (<<v>>) or left out (<<>>).
PartialHotkeyConfig ==
    [accelerator : {<<>>} \cup {<<a>> : a \in Accelerators},
     enabled : {<<>>} \cup {<<b>> : b \in BOOLEAN}]

\* What globalShortcut.register() and `new GlobalKeyboardListener()` can do.
OsOutcomes == {"ok", "refused", "throw"}

SpyOutcomes == {"ok", "throw"}

\* accelerator.trim().toLowerCase() on the accelerators above.
TrimLower(accelerator) ==
    CASE accelerator = "Fn" -> "fn"
      [] accelerator = "fn" -> "fn"
      [] accelerator = "F13" -> "f13"
      [] accelerator = "Shift+Z" -> "shift+z"
      [] OTHER -> ""

isFnAccelerator(accelerator) == TrimLower(accelerator) = "fn"

\* What accelerator.split('+') can yield, part by part.
RawTokens == {"Ctrl", "Shift", "ctrl", "A", "a", " A", "9", "F1", "f1",
              "Space", "space", "Plus", "Fn", "fn", "Foo", ""}

PartSeqs == UNION {[1..n -> RawTokens] : n \in 1..MaxParts}

validModifiers == {"Command", "Cmd", "Control", "Ctrl", "CommandOrControl", "CmdOrCtrl",
                   "Alt", "Option", "AltGr", "Shift", "Super", "Meta"}

validKeys ==
    {"A", "B", "C", "D", "E", "F", "G", "H", "I", "J", "K", "L", "M", "N", "O", "P",
     "Q", "R", "S", "T", "U", "V", "W", "X", "Y", "Z",
     "0", "1", "2", "3", "4", "5", "6", "7", "8", "9",
     "F1", "F2", "F3", "F4", "F5", "F6", "F7", "F8", "F9", "F10", "F11", "F12",
     "F13", "F14", "F15", "F16", "F17", "F18", "F19", "F20", "F21", "F22", "F23", "F24",
     "Space", "Tab", "Capslock", "Numlock", "Scrolllock", "Backspace", "Delete",
     "Insert", "Return", "Enter", "Up", "Down", "Left", "Right", "Home", "End",
     "PageUp", "PageDown", "Escape", "Esc", "Plus"}

\* p.trim() on the raw tokens.
TokenTrim(p) == IF p = " A" THEN "A" ELSE p

\* key.toUpperCase() on the trimmed tokens.
TokenToUpperCase(key) ==
    CASE key = "Ctrl" -> "CTRL" [] key = "ctrl" -> "CTRL"
      [] key = "Shift" -> "SHIFT"
      [] key = "a" -> "A"
      [] key = "f1" -> "F1"
      [] key = "Space" -> "SPACE" [] key = "space" -> "SPACE"
      [] key = "Plus" -> "PLUS"
      [] key = "Fn" -> "FN" [] key = "fn" -> "FN"
      [] key = "Foo" -> "FOO"
      [] OTHER -> key

RECURSIVE JoinParts(_)
\* The accelerator string whose split('+') is rawParts.
JoinParts(rawParts) ==
    IF Len(rawParts) = 1 THEN rawParts[1]
    ELSE rawParts[1] \o "+" \o JoinParts(Tail(rawParts))

\* Mutant: the modifiers are not checked.
validateAccelerator_AnyModifier(rawParts) ==
    IF isFnAccelerator(JoinParts(rawParts)) THEN TRUE
    ELSE LET parts == [i \in DOMAIN rawParts |-> TokenTrim(rawParts[i])]
             key == parts[Len(parts)]
         IN  key \in validKeys \/ TokenToUpperCase(key) \in validKeys

\* validateAccelerator(accelerator), given accelerator.split('+').
validateAccelerator(rawParts) ==
    IF isFnAccelerator(JoinParts(rawParts)) THEN TRUE
    ELSE LET parts == [i \in DOMAIN rawParts |-> TokenTrim(rawParts[i])]
             key == parts[Len(parts)]
             modifiers == SubSeq(parts, 1, Len(parts) - 1)
         IN  IF Len(parts) = 0 THEN FALSE
             ELSE IF ~(key \in validKeys) /\ ~(TokenToUpperCase(key) \in validKeys)
             THEN FALSE
             ELSE \A i \in DOMAIN modifiers : modifiers[i] \in validModifiers

\* The service's fields and the OS facilities it drives, as a handler sees
\* them on entry.
H == [config |-> config, isRegistered |-> isRegistered, keyspy |-> keyspy,
      staleAttach |-> staleAttach, shortcuts |-> shortcuts, store |-> store,
      fnPressed |-> fnPressed, errorListening |-> errorListening,
      ops |-> <<>>, ret |-> "void"]

\* EventEmitter.emit('error', error): with no 'error' listener attached the
\* emitter throws the error at the caller of emit.
emitError(h) ==
    IF h.errorListening
    THEN Log(h, "emit", "error", "")
    ELSE [Log(h, "emit", "error", "unhandled") EXCEPT !.ret = "throw"]

\* The catch block of register(): report, return false.
registerFailed(h) ==
    LET e == emitError([h EXCEPT !.ret = "void"])
    IN  IF e.ret = "throw" THEN e ELSE [e EXCEPT !.ret = "false"]

\* keyspy.kill() on the listener _keyspy refers to; its addListener()
\* promise, if still open, settles later.
killKeyspy(h) ==
    Log([h EXCEPT !.keyspy = "killed",
                  !.staleAttach = IF h.keyspy = "attaching" THEN @ + 1 ELSE @],
        "keyspy.kill", "", "")

registerFnHotkey(h, spy) ==
    LET h1 == IF h.keyspy # "null" THEN killKeyspy(h) ELSE h
    IN  IF spy = "throw"
        THEN [Log(h1, "keyspy.new", "", "throw") EXCEPT !.ret = "throw"]
        ELSE [Log(h1, "keyspy.new", "", "ok") EXCEPT !.keyspy = "attaching",
                                                     !.fnPressed = FALSE,
                                                     !.ret = "void"]

unregister(h) ==
    LET accelerator == h.config.accelerator
        h1 == IF h.isRegistered /\ accelerator # ""
              THEN IF isFnAccelerator(accelerator)
                   THEN [(IF h.keyspy # "null" THEN killKeyspy(h) ELSE h)
                            EXCEPT !.keyspy = "null", !.fnPressed = FALSE]
                   ELSE Log([h EXCEPT !.shortcuts = @ \ {accelerator}],
                            "globalShortcut.unregister", accelerator, "")
              ELSE h
    IN  [h1 EXCEPT !.isRegistered = FALSE, !.ret = "void"]

\* register(config?): cfg is <<>> when the argument is left out.
register(h, cfg, os, spy) ==
    LET h1 == IF cfg # <<>> THEN [h EXCEPT !.config = cfg[1]] ELSE h
    IN  IF ~h1.config.enabled
        THEN [h1 EXCEPT !.ret = "false"]
        ELSE LET h2 == unregister(h1)
                 accelerator == h2.config.accelerator
             IN  IF isFnAccelerator(accelerator)
                 THEN LET h3 == registerFnHotkey(h2, spy)
                      IN  IF h3.ret = "throw"
                          THEN registerFailed(h3)
                          ELSE [h3 EXCEPT !.isRegistered = TRUE, !.ret = "true"]
                 ELSE LET h3 == Log(h2, "globalShortcut.register", accelerator, os)
                      IN  CASE os = "ok" /\ accelerator # "" ->
                                 [h3 EXCEPT !.shortcuts = @ \cup {accelerator},
                                            !.isRegistered = TRUE, !.ret = "true"]
                            [] os = "refused" ->
                                 LET e == emitError(h3)
                                 IN  IF e.ret = "throw" THEN registerFailed(e)
                                     ELSE [e EXCEPT !.ret = "false"]
                            [] OTHER -> registerFailed(h3)

\* { ...this._config, ...config }
mergeConfig(current, partial) ==
    [accelerator |-> IF partial.accelerator # <<>> THEN partial.accelerator[1]
                     ELSE current.accelerator,
     enabled |-> IF partial.enabled # <<>> THEN partial.enabled[1]
                 ELSE current.enabled]

updateConfig(h, partial, os, spy) ==
    LET merged == mergeConfig(h.config, partial)
        h1 == Log([h EXCEPT !.config = merged, !.store = <<merged>>],
                  "setHotkey", merged.accelerator, Bool(merged.enabled))
    IN  IF h1.config.enabled
        THEN register(h1, <<>>, os, spy)
        ELSE [unregister(h1) EXCEPT !.ret = "true"]

\* The keys and key states the low-level listener reports.
KeyNames == {"fn", "Function", "a"}

KeyStates == {"DOWN", "UP"}

\* name.toUpperCase() on the key names above.
ToUpperCase(name) ==
    CASE name = "fn" -> "FN"
      [] name = "Function" -> "FUNCTION"
      [] OTHER -> "A"

isFn(name) == ToUpperCase(name) = "FN" \/ name = "Function"

\* Mutant: every DOWN of the special key emits press.
onKeyEvent_NoGuard(h, name, state) ==
    IF ~isFn(name) THEN [h EXCEPT !.ret = "false"]
    ELSE IF state = "DOWN"
         THEN [Log(Log(h, "emit", "press", ""), "pressCallback", "", "")
                  EXCEPT !.fnPressed = TRUE, !.ret = "true"]
         ELSE [Log(Log(h, "emit", "release", ""), "releaseCallback", "", "")
                  EXCEPT !.fnPressed = FALSE, !.ret = "true"]

\* _keyspyListener(event, down).
onKeyEvent(h, name, state) ==
    IF ~isFn(name) THEN [h EXCEPT !.ret = "false"]
    ELSE IF state = "DOWN"
         THEN IF h.fnPressed
              THEN [h EXCEPT !.ret = "true"]
              ELSE [Log(Log(h, "emit", "press", ""), "pressCallback", "", "")
                       EXCEPT !.fnPressed = TRUE, !.ret = "true"]
         ELSE [Log(Log(h, "emit", "release", ""), "releaseCallback", "", "")
                  EXCEPT !.fnPressed = FALSE, !.ret = "true"]

\* The callback given to globalShortcut.register().
onShortcut(h) == Log(Log(h, "emit", "press", ""), "pressCallback", "", "")

\* The .catch() of addListener(): an attach failure, whichever listener's.
onAttachFailed(h) ==
    LET e == emitError(h)
    IN  IF e.ret = "throw" THEN e ELSE [e EXCEPT !.isRegistered = FALSE]

\* -------------------------------------------------------- RecordingWidget
Displays == {"d1", "d2"}

DisplayOrder == <<"d1", "d2">>

WidgetState == {"idle", "recording", "processing", "success", "error"}

\* Mutant: every new window gets the load handler.
createWidgetForDisplay_AlwaysPush(ws, d, status) ==
    IF d \in DOMAIN ws THEN ws
    ELSE ws @@ (d :> [loaded |-> FALSE, destroyed |-> FALSE,
                      onLoad |-> TRUE, createdIn |-> status])

\* createWidgetForDisplay(display): a new window that starts loading; its
\* did-finish-load handler is registered only when the status is not idle.
\* createdIn remembers the status at creation (history).
createWidgetForDisplay(ws, d, status) ==
    IF d \in DOMAIN ws THEN ws
    ELSE ws @@ (d :> [loaded |-> FALSE, destroyed |-> FALSE,
                      onLoad |-> status # "idle", createdIn |-> status])

destroyWidgetForDisplay(ws, d) == [x \in DOMAIN ws \ {d} |-> ws[x]]

RECURSIVE createAll(_, _, _)
\* init(): one window per connected display.
createAll(ws, ds, status) ==
    IF ds = {} THEN ws
    ELSE LET d == CHOOSE x \in ds : TRUE
         IN  createAll(createWidgetForDisplay(ws, d, status), ds \ {d}, status)

\* RecordingWidget.updateAllWidgets(state): destroyed windows are dropped
\* from the map, every other window is sent the status.
pushToAll(ws, status) ==
    LET live == {d \in DOMAIN ws : ~ws[d].destroyed}
        order == SelectSeq(DisplayOrder, LAMBDA d : d \in live)
    IN  [widgets |-> [d \in live |-> ws[d]],
         ops |-> [i \in DOMAIN order |-> Op("widget-state-update", order[i], status)]]

\* The once('did-finish-load') handler of a window.
onDidFinishLoad(win, d, status) ==
    IF win.onLoad /\ ~win.destroyed
    THEN <<Op("widget-state-update", d, status)>> ELSE <<>>

\* ------------------------------------------------------------- history
\* Texts written to the clipboard (by insert or copyToClipboardOnly) and
\* completions accepted (processing -> inserting) in a handler's trace.
Deliveries(ops) == Len(SelectSeq(ops, LAMBDA o : o.op = "clipboard"))

Acceptances(ops) == Len(SelectSeq(ops, LAMBDA o : o = Op("emit", "inserting", "processing")))

\* What captureActiveApp() returned to the handler that started the
\* recording (idle -> recording) in a handler's trace; `before` when the
\* trace starts no recording.
StartCapture(ops, before) ==
    LET caps == SelectSeq(ops, LAMBDA o : o.op = "captured")
    IN  IF Len(SelectSeq(ops, LAMBDA o : o = Op("emit", "recording", "idle"))) > 0
           /\ Len(caps) > 0
        THEN IF caps[1].a = "null" THEN <<>> ELSE <<caps[1].a>>
        ELSE before

\* The counts start over whenever the machine is at idle. `armed` holds
\* the timers armed since the machine left idle that are still armed,
\* `stale` those armed during an activation that has ended since.
NextActivation(w) ==
    IF w.currentState = "idle"
    THEN [accepted |-> 0, delivered |-> 0, captured |-> <<>>, armed |-> {},
          stale |-> (activation.stale \cup activation.armed) \cap w.timers]
    ELSE [accepted |-> activation.accepted + Acceptances(w.ops),
          delivered |-> activation.delivered + Deliveries(w.ops),
          captured |-> StartCapture(w.ops, activation.captured),
          armed |-> (activation.armed \cap w.timers) \cup (w.timers \ timers),
          stale |-> activation.stale \cap w.timers]

\* ------------------------------------------------------------- commit
\* The handler has run to its end (or to its next await) and left the
\* fields as w0 has them; w0 is computed once.
Commit(w0, handler, input) ==
    /\ inputs + input <= MaxInputs
    /\ inputs' = inputs + input
    /\ \E w \in {w0} :
         /\ Cardinality(w.timers) <= MaxTimers
         /\ BagCardinality(w.pending) <= MaxPending
         /\ currentState' = w.currentState
         /\ recordingStartTime' = w.recordingStartTime
         /\ now' = w.now
         /\ listening' = w.listening
         /\ isRecording' = w.isRecording
         /\ processingTimeout' = w.processingTimeout
         /\ feedbackTimeout' = w.feedbackTimeout
         /\ timers' = w.timers
         /\ widgetState' = w.widgetState
         /\ capturedAppName' = w.capturedAppName
         /\ mainWindow' = w.mainWindow
         /\ loading' = w.loading
         /\ pending' = w.pending
         /\ activation' = NextActivation(w)
         /\ lastOp' = [handler |-> handler, entry |-> currentState,
                       ops |-> w.ops, ret |-> w.ret]
         /\ UNCHANGED hotkeyVars
         /\ UNCHANGED widgetVars

\* ------------------------------------- the state machine on its own
\* A caller invokes transition(trigger) with any trigger.
CallTransition(trigger) ==
    /\ Commit(transition(W, trigger), "transition", 1)

CallReset ==
    /\ Commit(reset(W), "reset", 1)

\* A caller asks canTransition(trigger).
CallCanTransition(trigger) ==
    /\ Commit(canTransition(Log(W, "canTransition", trigger, currentState), trigger),
              "canTransition", 1)

\* Time passes; a timer that is due fires before time passes it.
Tick(d) ==
    /\ \A t \in timers : t.due >= now + d
    /\ Commit([W EXCEPT !.now = now + d], "tick", 1)

InitFields ==
    /\ recordingStartTime = <<>>
    /\ now = 1
    /\ isRecording = FALSE
    /\ processingTimeout = <<>>
    /\ feedbackTimeout = <<>>
    /\ timers = {}
    /\ capturedAppName = <<>>
    /\ mainWindow = "alive"
    /\ loading = FALSE
    /\ pending = EmptyBag
    /\ activation = [accepted |-> 0, delivered |-> 0, captured |-> <<>>,
                     armed |-> {}, stale |-> {}]
    /\ inputs = 0
    /\ lastOp = [handler |-> "init", entry |-> "idle", ops |-> <<>>, ret |-> "void"]
    /\ config = DEFAULT_HOTKEY
    /\ isRegistered = FALSE
    /\ keyspy = "null"
    /\ staleAttach = 0
    /\ shortcuts = {}
    /\ store = <<>>
    /\ fnPressed = FALSE
    /\ errorListening = FALSE
    /\ widgets = <<>>
    /\ displays = {"d1"}
    /\ screenListening = FALSE

InitCommon == currentState = "idle" /\ widgetState = "idle" /\ InitFields

\* new RecordingStateMachine(): nobody listens to stateChange.
MachineInit == InitCommon /\ listening = FALSE

MachineNext ==
    \/ \E trigger \in StateTrigger : CallTransition(trigger)
    \/ CallReset
    \/ \E trigger \in StateTrigger : CallCanTransition(trigger)
    \/ \E d \in TickSteps : Tick(d)

MachineSpec == MachineInit /\ [][MachineNext]_vars

\* ------------------------------------------------- the whole controller
\* new Orchestrator(): the stateChange listener is attached.
Init == InitCommon /\ listening = TRUE

\* The global hotkey fires.
Press ==
    /\ Commit(onPress(W), "press", 1)

\* The widget is clicked.
WidgetToggle ==
    /\ Commit(onWidgetToggle(W), "toggle", 1)

\* The exec behind captureActiveApp() returns and the handler resumes.
CaptureReturns(c, outcome) ==
    /\ BagIn(c, pending) /\ c.kind = "capture"
    /\ Commit(afterCapture(Resume(W, c), outcome),
              IF c.origin = "press" THEN "press.afterCapture" ELSE "toggle.afterCapture", 0)

\* The renderer reports a transcription.
TranscriptionComplete(text, insertionMethod) ==
    /\ Commit(onTranscriptionComplete(W, text, insertionMethod), "complete", 1)

\* The exec behind restoreFocus() returns.
FocusReturns(c, ok) ==
    /\ BagIn(c, pending) /\ c.kind = "focus"
    /\ Commit(IF ok
              THEN Suspend(Log(Resume(W, c), "restoreFocus.exec", "", "true"),
                           Cont("focusDelay", c.origin, c.text))
              ELSE insertCopyAndPaste(Log(Resume(W, c), "restoreFocus.exec", "", "false"),
                                      c.text),
              "complete.afterFocus", 0)

\* The 100 ms pause after a successful restoreFocus() is over.
FocusDelayElapsed(c) ==
    /\ BagIn(c, pending) /\ c.kind = "focusDelay"
    /\ Commit(insertCopyAndPaste(Resume(W, c), c.text), "complete.afterFocusDelay", 0)

\* simulatePaste() returns; insert() finishes and the handler resumes.
PasteReturns(c, ok) ==
    /\ BagIn(c, pending) /\ c.kind = "paste"
    /\ Commit(insertAfterPaste(Resume(W, c), ok), "complete.afterPaste", 0)

\* The renderer reports a transcription failure.
TranscriptionError ==
    /\ Commit(onTranscriptionError(W), "error", 1)

\* The renderer reports the key-up (push-to-talk).
HotkeyRelease ==
    /\ Commit(onHotkeyRelease(W), "release", 1)

\* 'render-process-gone' or 'crashed'.
RendererCrash ==
    /\ Commit(handleRendererCrash(W), "crash", 1)

\* The earliest armed timer fires, once time has reached its due instant.
FireTimer(t) ==
    /\ t \in timers
    /\ \A u \in timers : u.due >= t.due
    /\ Commit(timerCallback([W EXCEPT !.timers = @ \ {t},
                                      !.now = IF t.due > now THEN t.due ELSE now],
                            t.kind),
              t.kind, 0)

\* The capture surface starts or finishes loading, or is destroyed.
LoadStarted ==
    /\ mainWindow = "alive" /\ ~loading
    /\ Commit([W EXCEPT !.loading = TRUE], "surface", 1)

LoadFinished ==
    /\ mainWindow = "alive" /\ loading
    /\ Commit([W EXCEPT !.loading = FALSE], "surface", 0)

WindowDestroyed ==
    /\ mainWindow = "alive"
    /\ Commit([W EXCEPT !.mainWindow = "destroyed", !.loading = FALSE], "surface", 1)

Next ==
    \/ Press
    \/ WidgetToggle
    \/ \E c \in BagToSet(pending), outcome \in CaptureOutcomes : CaptureReturns(c, outcome)
    \/ \E text \in Texts, m \in InsertionMethods : TranscriptionComplete(text, m)
    \/ \E c \in BagToSet(pending), ok \in BOOLEAN : FocusReturns(c, ok)
    \/ \E c \in BagToSet(pending) : FocusDelayElapsed(c)
    \/ \E c \in BagToSet(pending), ok \in BOOLEAN : PasteReturns(c, ok)
    \/ TranscriptionError
    \/ HotkeyRelease
    \/ RendererCrash
    \/ \E t \in timers : FireTimer(t)
    \/ LoadStarted
    \/ LoadFinished
    \/ WindowDestroyed
    \/ Tick(minRecordingDuration)

Spec == Init /\ [][Next]_vars

\* The controller taken up with the machine in its error state, the state
\* the handlers' error branches are written for (the controller's tests put
\* the machine there directly); the widgets show what the listener pushes on
\* entering error.
ErrorInit ==
    /\ currentState = "error" /\ widgetState = "error"
    /\ InitFields /\ listening = TRUE

ErrorSpec == ErrorInit /\ [][Next]_vars

\* The controller in the middle of an insertion: the state Spec is in after
\* a press, the capture of "Notes", 200 ms of recording, a second press and
\* the completion "hello" with the paste method, whose handler is suspended
\* in restoreFocus(). The count of outside events starts over.
InsertingInit ==
    /\ currentState = "inserting" /\ widgetState = "processing"
    /\ recordingStartTime = <<1>> /\ now = 201
    /\ listening = TRUE /\ isRecording = FALSE
    /\ processingTimeout = <<>> /\ feedbackTimeout = <<>> /\ timers = {}
    /\ capturedAppName = <<"Notes">>
    /\ mainWindow = "alive" /\ loading = FALSE
    /\ pending = SetToBag({Cont("focus", "complete", "hello")})
    /\ activation = [accepted |-> 1, delivered |-> 0, captured |-> <<"Notes">>,
                     armed |-> {}, stale |-> {}]
    /\ inputs = 0
    /\ lastOp = [handler |-> "complete", entry |-> "processing", ret |-> "true",
                 ops |-> <<Op("transition", "transcription_complete", "processing"),
                           Op("emit", "inserting", "processing"),
                           Op("clearTimeout", "watchdog", ""),
                           Op("insert", "hello", ""),
                           Op("restoreFocus", "Notes", "")>>]
    /\ config = DEFAULT_HOTKEY /\ isRegistered = FALSE /\ keyspy = "null"
    /\ staleAttach = 0 /\ shortcuts = {} /\ store = <<>>
    /\ fnPressed = FALSE /\ errorListening = FALSE
    /\ widgets = <<>> /\ displays = {"d1"} /\ screenListening = FALSE

InsertingSpec == InsertingInit /\ [][Next]_vars

\* The event loop runs every timer that is due and resumes every handler
\* whose awaited OS call has returned.
LiveNext == Next /\ inputs' <= MaxLiveInputs

FairSpec ==
    /\ Init /\ [][LiveNext]_vars
    /\ WF_vars(\E t \in timers : FireTimer(t))
    /\ WF_vars(\E c \in BagToSet(pending), ok \in BOOLEAN : FocusReturns(c, ok))
    /\ WF_vars(\E c \in BagToSet(pending) : FocusDelayElapsed(c))
    /\ WF_vars(\E c \in BagToSet(pending), ok \in BOOLEAN : PasteReturns(c, ok))

\* ------------------------------------------------- the hotkey service
\* A call of the service has returned and left the fields as h0 has them.
HotkeyCommit(h0, handler, input) ==
    /\ inputs + input <= MaxCalls
    /\ inputs' = inputs + input
    /\ \E h \in {h0} :
         /\ config' = h.config
         /\ isRegistered' = h.isRegistered
         /\ keyspy' = h.keyspy
         /\ staleAttach' = h.staleAttach
         /\ shortcuts' = h.shortcuts
         /\ store' = h.store
         /\ fnPressed' = h.fnPressed
         /\ errorListening' = h.errorListening
         /\ lastOp' = [handler |-> handler, entry |-> currentState,
                       ops |-> h.ops, ret |-> h.ret]
         /\ UNCHANGED orchestratorVars
         /\ UNCHANGED widgetVars

Register(cfg, os, spy) ==
    /\ HotkeyCommit(register(H, cfg, os, spy), "register", 1)

UpdateConfig(partial, os, spy) ==
    /\ HotkeyCommit(updateConfig(Log(H, "updateConfig",
                                     IF partial.accelerator = <<>> THEN "<none>"
                                     ELSE partial.accelerator[1],
                                     IF partial.enabled = <<>> THEN "<none>"
                                     ELSE Bool(partial.enabled[1])),
                                 partial, os, spy),
                    "updateConfig", 1)

Unregister ==
    /\ HotkeyCommit(unregister(H), "unregister", 1)

\* The addListener() promise of the listener in use settles.
AttachSettles(ok) ==
    /\ keyspy = "attaching"
    /\ HotkeyCommit(IF ok THEN [H EXCEPT !.keyspy = "live"]
                    ELSE onAttachFailed([H EXCEPT !.keyspy = "failed"]),
                    "attach", 0)

\* The addListener() promise of a listener killed meanwhile settles.
StaleAttachSettles(ok) ==
    /\ staleAttach > 0
    /\ HotkeyCommit(IF ok THEN [H EXCEPT !.staleAttach = @ - 1]
                    ELSE onAttachFailed([H EXCEPT !.staleAttach = @ - 1]),
                    "staleAttach", 0)

\* The owner of the service subscribes to its error event.
ListenForErrors ==
    /\ ~errorListening
    /\ HotkeyCommit([H EXCEPT !.errorListening = TRUE], "on", 0)

\* The attached listener is handed a key event.
KeyEvent(name, state) ==
    /\ keyspy = "live"
    /\ HotkeyCommit(onKeyEvent(Log(H, "keyEvent", name, state), name, state), "key", 0)

\* The OS reports a held shortcut.
ShortcutPressed(accelerator) ==
    /\ accelerator \in shortcuts
    /\ HotkeyCommit(onShortcut(Log(H, "shortcut", accelerator, "")), "shortcut", 0)

HotkeyNext ==
    \/ \E cfg \in {<<>>} \cup {<<c>> : c \in HotkeyConfig},
          os \in OsOutcomes, spy \in SpyOutcomes : Register(cfg, os, spy)
    \/ \E partial \in PartialHotkeyConfig,
          os \in OsOutcomes, spy \in SpyOutcomes : UpdateConfig(partial, os, spy)
    \/ Unregister
    \/ \E ok \in BOOLEAN : AttachSettles(ok)
    \/ \E ok \in BOOLEAN : StaleAttachSettles(ok)
    \/ ListenForErrors
    \/ \E name \in KeyNames, state \in KeyStates : KeyEvent(name, state)
    \/ \E accelerator \in Accelerators : ShortcutPressed(accelerator)

HotkeySpec == Init /\ [][HotkeyNext]_vars

\* ------------------------------------------------- accelerator validation
\* A caller validates an accelerator; the parts are kept in the trace. The
\* function is static and pure: one call per behaviour.
ValidateAccelerator(rawParts) ==
    /\ inputs = 0
    /\ HotkeyCommit([H EXCEPT !.ops = [i \in DOMAIN rawParts |-> Op("part", rawParts[i], "")],
                              !.ret = Bool(validateAccelerator(rawParts))],
                    "validateAccelerator", 1)

ValidateNext == \E rawParts \in PartSeqs : ValidateAccelerator(rawParts)

ValidateSpec == Init /\ [][ValidateNext]_vars

\* ------------------------------------------------------ the widget
\* A call or callback of RecordingWidget has run.
WidgetCommit(ws, ds, listens, status, handler, ops, input) ==
    /\ inputs + input <= MaxWidgetEvents
    /\ inputs' = inputs + input
    /\ widgets' = ws /\ displays' = ds /\ screenListening' = listens
    /\ widgetState' = status
    /\ lastOp' = [handler |-> handler, entry |-> currentState, ops |-> ops, ret |-> "void"]
    /\ UNCHANGED <<currentState, recordingStartTime, now, listening, isRecording,
                   processingTimeout, feedbackTimeout, timers, capturedAppName,
                   mainWindow, loading, pending, activation>>
    /\ UNCHANGED hotkeyVars

\* initRecordingWidget().
WidgetInit ==
    /\ ~screenListening
    /\ WidgetCommit(createAll(widgets, displays, widgetState), displays, TRUE,
                    widgetState, "widget.init", <<>>, 1)

\* screen 'display-added'.
DisplayAdded(d) ==
    /\ d \notin displays
    /\ WidgetCommit(IF screenListening
                    THEN createWidgetForDisplay(widgets, d, widgetState) ELSE widgets,
                    displays \cup {d}, screenListening, widgetState,
                    "display-added", <<>>, 1)

\* screen 'display-removed'.
DisplayRemoved(d) ==
    /\ d \in displays
    /\ WidgetCommit(IF screenListening
                    THEN destroyWidgetForDisplay(widgets, d) ELSE widgets,
                    displays \ {d}, screenListening, widgetState,
                    "display-removed", <<>>, 1)

\* The orchestrator pushes a status.
UpdateAllWidgets(status) ==
    /\ LET r == pushToAll(widgets, status)
       IN  WidgetCommit(r.widgets, displays, screenListening, status,
                        "updateAllWidgets", r.ops, 1)

\* A window's content has finished loading.
DidFinishLoad(d) ==
    /\ d \in DOMAIN widgets /\ ~widgets[d].loaded
    /\ WidgetCommit([widgets EXCEPT ![d].loaded = TRUE, ![d].onLoad = FALSE],
                    displays, screenListening, widgetState, "did-finish-load",
                    onDidFinishLoad(widgets[d], d, widgetState), 0)

\* A window is destroyed from outside; the map still holds it.
WidgetWindowClosed(d) ==
    /\ d \in DOMAIN widgets /\ ~widgets[d].destroyed
    /\ WidgetCommit([widgets EXCEPT ![d].destroyed = TRUE],
                    displays, screenListening, widgetState, "window-closed", <<>>, 1)

\* RecordingWidget.destroy().
WidgetDestroy ==
    /\ screenListening
    /\ WidgetCommit(<<>>, displays, FALSE, widgetState, "widget.destroy", <<>>, 1)

WidgetNext ==
    \/ WidgetInit
    \/ \E d \in Displays : DisplayAdded(d)
    \/ \E d \in Displays : DisplayRemoved(d)
    \/ \E status \in WidgetState : UpdateAllWidgets(status)
    \/ \E d \in Displays : DidFinishLoad(d)
    \/ \E d \in Displays : WidgetWindowClosed(d)
    \/ WidgetDestroy

WidgetSpec == Init /\ [][WidgetNext]_vars

\* ------------------------------------------------------------ properties
Emits(ops) == SelectSeq(ops, LAMBDA o : o.op = "emit")

Calls(ops, name) == SelectSeq(ops, LAMBDA o : o.op = name)

\* The step is a call of transition(trigger) on the machine.
IsTransitionCall(trigger) ==
    /\ inputs' = inputs + 1
    /\ lastOp'.handler = "transition"
    /\ lastOp'.ops[1] = Op("transition", trigger, currentState)

IsResetCall == inputs' = inputs + 1 /\ lastOp'.handler = "reset"

\* The transition table of the specification, written out.
InTable(state, trigger) ==
    <<state, trigger>> \in {<<"idle", "hotkey_press">>, <<"recording", "hotkey_release">>,
                            <<"recording", "error">>, <<"processing", "transcription_complete">>,
                            <<"processing", "error">>, <<"inserting", "insertion_complete">>,
                            <<"inserting", "error">>, <<"error", "reset">>}

TableTarget(state, trigger) ==
    CASE trigger = "hotkey_press" -> "recording"
      [] trigger = "hotkey_release" -> "processing"
      [] trigger = "transcription_complete" -> "inserting"
      [] OTHER -> "idle"

Elapsed == now - recordingStartTime[1]

\* C1: a (state, trigger) pair that is not in the transition table makes
\* transition return false, leaves currentState and recordingStartTime as they
\* were and emits no stateChange.
C1_RejectedTransition ==
    [][\A trigger \in StateTrigger :
         (IsTransitionCall(trigger) /\ ~InTable(currentState, trigger))
           => /\ lastOp'.ret = "false"
              /\ currentState' = currentState
              /\ recordingStartTime' = recordingStartTime
              /\ Emits(lastOp'.ops) = <<>>]_vars

C1_Witness ==
    /\ lastOp.handler = "transition" /\ lastOp.ret = "false"
    /\ lastOp.ops = <<Op("transition", "hotkey_press", "processing")>>
    /\ currentState = "processing" /\ recordingStartTime # <<>>

\* C2: a table-legal trigger (a release only after the recording was held for
\* minRecordingDuration) returns true, moves currentState to the table's
\* target and emits exactly one stateChange(newState, previousState).
C2_LegalTransition ==
    [][\A trigger \in StateTrigger :
         (/\ IsTransitionCall(trigger) /\ InTable(currentState, trigger)
          /\ ~(trigger = "hotkey_release" /\ Elapsed < minRecordingDuration))
           => /\ lastOp'.ret = "true"
              /\ currentState' = TableTarget(currentState, trigger)
              /\ Emits(lastOp'.ops) = <<Op("emit", currentState', currentState)>>]_vars

C2_Witness ==
    /\ lastOp.handler = "transition" /\ lastOp.ret = "true"
    /\ lastOp.entry = "inserting" /\ currentState = "idle"
    /\ Emits(lastOp.ops) = <<Op("emit", "idle", "inserting")>>

\* C3: hotkey_release in recording with elapsed < minRecordingDuration returns
\* false, leaves the machine in idle with recordingStartTime cleared and emits
\* exactly one stateChange(idle, recording), none that names processing; with
\* elapsed >= minRecordingDuration it returns true and leaves it in processing.
C3_MinimumDuration ==
    [][(IsTransitionCall("hotkey_release") /\ currentState = "recording")
         => IF Elapsed < minRecordingDuration
            THEN /\ lastOp'.ret = "false"
                 /\ currentState' = "idle" /\ recordingStartTime' = <<>>
                 /\ Emits(lastOp'.ops) = <<Op("emit", "idle", "recording")>>
            ELSE /\ lastOp'.ret = "true"
                 /\ currentState' = "processing"]_vars

C3_Witness ==
    /\ lastOp.handler = "transition" /\ lastOp.ret = "false"
    /\ lastOp.ops[1] = Op("transition", "hotkey_release", "recording")
    /\ currentState = "idle" /\ recordingStartTime = <<>> /\ now > 1

\* C4: reset() leaves the machine in idle with recordingStartTime null and
\* emits stateChange(idle, previousState) exactly when the previous state was
\* not idle; a reset() right after a reset() changes nothing and emits nothing.
C4_Reset ==
    [][IsResetCall
         => /\ currentState' = "idle" /\ recordingStartTime' = <<>>
            /\ Emits(lastOp'.ops) = IF currentState # "idle"
                                    THEN <<Op("emit", "idle", currentState)>> ELSE <<>>
            /\ lastOp.handler = "reset"
                 => /\ UNCHANGED <<currentState, recordingStartTime>>
                    /\ Emits(lastOp'.ops) = <<>>]_vars

C4_Witness ==
    /\ lastOp.handler = "reset" /\ lastOp.entry = "processing"
    /\ Emits(lastOp.ops) = <<Op("emit", "idle", "processing")>>
    /\ currentState = "idle" /\ recordingStartTime = <<>>

\* C5: recordingStartTime is non-null whenever the state is recording and null
\* whenever the state is idle.
C5_StartTimeInvariant ==
    /\ currentState = "recording" => recordingStartTime # <<>>
    /\ currentState = "idle" => recordingStartTime = <<>>

C5_Witness ==
    /\ currentState = "idle" /\ recordingStartTime = <<>>
    /\ lastOp.handler = "transition" /\ lastOp.entry = "inserting"

IsPressSignal ==
    /\ inputs' = inputs + 1
    /\ lastOp'.handler \in {"press", "toggle"}

IsCompletionSignal == inputs' = inputs + 1 /\ lastOp'.handler = "complete"

Submits(ops, trigger) ==
    {i \in DOMAIN ops : ops[i].op = "transition" /\ ops[i].a = trigger}

\* What a handler that ignores its signal must leave alone.
ControllerUnchanged ==
    UNCHANGED <<currentState, recordingStartTime, isRecording, processingTimeout,
                feedbackTimeout, timers, widgetState, capturedAppName, pending>>

\* C7: a press signal handled in idle calls captureActiveApp and submits
\* nothing until the capture has returned; hotkey_press is submitted right
\* after the capture's result, and no capture is started after it.
C7_CaptureBeforePress ==
    /\ (lastOp.handler \in {"press", "toggle"} /\ lastOp.entry = "idle")
         => lastOp.ops = <<Op("captureActiveApp", "", "")>>
    /\ \A i \in Submits(lastOp.ops, "hotkey_press") :
         /\ lastOp.handler \in {"press.afterCapture", "toggle.afterCapture"}
         /\ i > 1 /\ lastOp.ops[i - 1].op = "captured"
         /\ \A j \in DOMAIN lastOp.ops : j > i => lastOp.ops[j].op # "captureActiveApp"

C7_Witness ==
    /\ lastOp.handler = "press.afterCapture"
    /\ lastOp.ops[1] = Op("captured", "Notes", "")
    /\ lastOp.ops[2] = Op("transition", "hotkey_press", "idle")
    /\ currentState = "recording" /\ capturedAppName = <<"Notes">>

\* C8: a press signal handled in recording submits hotkey_release, starts no
\* capture of the foreground application and never submits hotkey_press.
C8_SecondPressStops ==
    [][(IsPressSignal /\ currentState = "recording")
         => /\ lastOp'.ops[1] = Op("transition", "hotkey_release", "recording")
            /\ Calls(lastOp'.ops, "captureActiveApp") = <<>>
            /\ Submits(lastOp'.ops, "hotkey_press") = {}
            /\ UNCHANGED <<capturedAppName, pending>>]_vars

C8_Witness ==
    /\ lastOp.handler = "toggle" /\ lastOp.entry = "recording"
    /\ currentState = "processing" /\ capturedAppName # <<>>

\* C9: a press signal handled in processing or inserting makes no capture, no
\* transition attempt and no reset, and leaves the machine, the timers and
\* the widget status as they were.
C9_PressIgnored ==
    [][(IsPressSignal /\ currentState \in {"processing", "inserting"})
         => /\ lastOp'.ops = <<>>
            /\ ControllerUnchanged]_vars

C9_Witness ==
    /\ lastOp.handler = "press" /\ lastOp.entry = "inserting"
    /\ lastOp.ops = <<>> /\ currentState = "inserting"

\* C10: a transcription-complete signal handled in processing submits
\* transcription_complete; handled in any other state it is dropped: nothing
\* is submitted, inserted, written to the clipboard, pushed or armed.
C10_CompletionOnlyInProcessing ==
    [][IsCompletionSignal
         => IF currentState = "processing"
            THEN lastOp'.ops[1] = Op("transition", "transcription_complete", "processing")
            ELSE lastOp'.ops = <<>> /\ ControllerUnchanged]_vars

C10_Witness ==
    /\ lastOp.handler = "complete" /\ lastOp.entry = "inserting"
    /\ lastOp.ops = <<>> /\ currentState = "inserting"
    /\ \E c \in BagToSet(pending) : c.kind = "paste"

\* The step is the firing of a timer of the given kind.
Fires(kind) == inputs' = inputs /\ lastOp'.handler = kind

Pushes(ops, status) ==
    {i \in DOMAIN ops : ops[i].op = "widget" /\ ops[i].a = status}

\* C11: the deferred action of a transcription error that finds the machine
\* out of processing pushes no idle and submits no error (it does nothing at
\* all); and a step that takes the machine out of processing disarms the
\* deferred error whose handle feedbackTimeout holds, so that after an error
\* followed by a completion the deferred action does not even run.
C11_GuardedDeferredError ==
    [][/\ (Fires("errorFeedback") /\ currentState # "processing")
            => /\ Pushes(lastOp'.ops, "idle") = {}
               /\ Submits(lastOp'.ops, "error") = {}
               /\ lastOp'.ops = <<>>
               /\ UNCHANGED <<currentState, recordingStartTime, isRecording, widgetState,
                               processingTimeout, feedbackTimeout, pending>>
               /\ timers' \subseteq timers
       /\ (currentState = "processing" /\ currentState' # "processing")
            => \A t \in timers :
                 (t.kind = "errorFeedback" /\ feedbackTimeout = <<t.id>>)
                   => t \notin timers']_vars

C11_Witness ==
    /\ lastOp.handler = "complete" /\ lastOp.entry = "processing"
    /\ currentState = "inserting"
    /\ \E i \in DOMAIN lastOp.ops : lastOp.ops[i] = Op("clearTimeout", "errorFeedback", "")
    /\ \A t \in timers : t.kind # "errorFeedback"

IsErrorSignal == inputs' = inputs + 1 /\ lastOp'.handler = "error"

\* C12: a transcription-error signal, in whatever state, pushes error to the
\* widgets at once, arms the 3 s timer and submits no trigger; the timer's
\* callback pushes idle and then submits error exactly when it finds the
\* machine in processing, and does nothing otherwise.
C12_DeferredErrorSignal ==
    [][/\ IsErrorSignal
            => /\ lastOp'.ops = <<Op("widget", "error", ""),
                                  Op("setTimeout", "errorFeedback", "")>>
               /\ widgetState' = "error"
               /\ UNCHANGED <<currentState, recordingStartTime>>
               /\ \E t \in timers' \ timers :
                     /\ t.kind = "errorFeedback" /\ t.due = now + ERROR_FEEDBACK_MS
                     /\ feedbackTimeout' = <<t.id>>
       /\ Fires("errorFeedback")
            => IF currentState = "processing"
               THEN /\ lastOp'.ops[1] = Op("widget", "idle", "")
                    /\ lastOp'.ops[2] = Op("transition", "error", "processing")
                    /\ Submits(lastOp'.ops, "error") = {2}
                    /\ currentState' = "idle"
               ELSE lastOp'.ops = <<>> /\ UNCHANGED currentState]_vars

C12_Witness ==
    /\ lastOp.handler = "errorFeedback" /\ lastOp.entry = "processing"
    /\ lastOp.ops[2] = Op("transition", "error", "processing")
    /\ currentState = "idle" /\ widgetState = "idle"
    /\ now >= 1 + minRecordingDuration + ERROR_FEEDBACK_MS

\* C13: on entering processing the 30 s timer is armed; when it fires in
\* processing it pushes error and arms the 3 s timer, the machine staying in
\* processing; when that one fires in processing it pushes idle, then submits
\* error, and the machine is in idle; the widgets get exactly one push on that
\* step, the idle one, the stateChange listener adding none.
C13_ProcessingWatchdog ==
    [][/\ (currentState # "processing" /\ currentState' = "processing")
            => \E t \in timers' :
                 /\ t.kind = "watchdog" /\ t.due = now' + PROCESSING_TIMEOUT_MS
                 /\ processingTimeout' = <<t.id>>
       /\ (Fires("watchdog") /\ currentState = "processing")
            => /\ lastOp'.ops = <<Op("widget", "error", ""),
                                  Op("setTimeout", "watchdogGrace", "")>>
               /\ currentState' = "processing" /\ widgetState' = "error"
               /\ \E t \in timers' :
                     /\ t.kind = "watchdogGrace" /\ t.due = now' + WATCHDOG_GRACE_MS
                     /\ feedbackTimeout' = <<t.id>>
       /\ (Fires("watchdogGrace") /\ currentState = "processing")
            => /\ lastOp'.ops[1] = Op("widget", "idle", "")
               /\ lastOp'.ops[2] = Op("transition", "error", "processing")
               /\ Calls(lastOp'.ops, "widget") = <<Op("widget", "idle", "")>>
               /\ currentState' = "idle" /\ widgetState' = "idle"]_vars

C13_Witness ==
    /\ lastOp.handler = "watchdogGrace" /\ lastOp.entry = "processing"
    /\ Calls(lastOp.ops, "widget") = <<Op("widget", "idle", "")>>
    /\ currentState = "idle"
    /\ now = 1 + minRecordingDuration + PROCESSING_TIMEOUT_MS + WATCHDOG_GRACE_MS

\* C14: whenever the machine is not in processing, neither the 30 s
\* processing timer nor its 3 s second stage is still armed.
C14_WatchdogsCancelled ==
    currentState # "processing"
        => \A t \in timers : t.kind \notin {"watchdog", "watchdogGrace"}

\* The widget pushes made between the i-th logged call, an emit, and the next
\* emit of the same handler run: those of the listener serving that emit.
PushesAfterEmit(ops, i) ==
    {j \in DOMAIN ops : /\ j > i /\ ops[j].op = "widget"
                        /\ \A k \in (i + 1)..j : ops[k].op # "emit"}

\* C15: a stateChange into idle from inserting or processing is served
\* without any widget push; one from recording or error is served with
\* exactly one push, of idle.
C15_IdlePushSuppressed ==
    \A i \in DOMAIN lastOp.ops :
        (lastOp.ops[i].op = "emit" /\ lastOp.ops[i].a = "idle")
          => IF lastOp.ops[i].b \in {"inserting", "processing"}
             THEN PushesAfterEmit(lastOp.ops, i) = {}
             ELSE \E j \in DOMAIN lastOp.ops :
                    /\ PushesAfterEmit(lastOp.ops, i) = {j}
                    /\ lastOp.ops[j] = Op("widget", "idle", "")

C15_Witness ==
    /\ lastOp.handler = "crash" /\ lastOp.entry = "processing"
    /\ \E i \in DOMAIN lastOp.ops : lastOp.ops[i] = Op("emit", "idle", "processing")
    /\ Calls(lastOp.ops, "widget") = <<>>
    /\ currentState = "idle" /\ widgetState = "processing"

\* The handler of 'transcription-complete' and its resumptions.
CompletionHandlers ==
    {"complete", "complete.afterFocus", "complete.afterFocusDelay", "complete.afterPaste"}

FeedbackPushes(ops) ==
    {j \in DOMAIN ops : ops[j].op = "widget" /\ ops[j].a \in {"success", "error"}}

\* C16: an accepted completion first submits transcription_complete (machine
\* in inserting) and then hands the text to insert() or copyToClipboardOnly();
\* the feedback push comes after the insertion calls, is error exactly when
\* the text was empty and success otherwise, and is followed at once by the
\* arming of the 2 s timer; that timer's callback, finding the machine in
\* inserting, pushes idle and then submits insertion_complete, which leaves
\* the machine in idle, and does nothing in any other state.
C16_CompletionOrder ==
    [][/\ (IsCompletionSignal /\ currentState = "processing")
            => /\ lastOp'.ops[1] = Op("transition", "transcription_complete", "processing")
               /\ lastOp'.ops[2] = Op("emit", "inserting", "processing")
               /\ currentState' = "inserting"
               /\ \E i \in DOMAIN lastOp'.ops :
                     /\ lastOp'.ops[i].op \in {"insert", "copyToClipboardOnly"}
                     /\ \A k \in 1..(i - 1) :
                           lastOp'.ops[k].op \notin {"widget", "clipboard", "setTimeout"}
       /\ (lastOp'.handler \in CompletionHandlers /\ lastOp' # lastOp)
            => \A j \in FeedbackPushes(lastOp'.ops) :
                 /\ \E i \in 1..(j - 1) :
                       lastOp'.ops[i].op \in {"insert", "copyToClipboardOnly", "simulatePaste"}
                 /\ lastOp'.ops[j].a = "error"
                       <=> \E i \in 1..(j - 1) :
                             /\ lastOp'.ops[i].op \in {"insert", "copyToClipboardOnly"}
                             /\ IsEmptyText(lastOp'.ops[i].a)
                 /\ lastOp'.ops[j].a = "success"
                       => \E i \in 1..(j - 1) : lastOp'.ops[i].op = "clipboard"
                                                   \/ lastOp'.ops[i].op = "simulatePaste"
                 /\ j + 1 = Len(lastOp'.ops)
                 /\ lastOp'.ops[j + 1] = Op("setTimeout", "insertFeedback", "")
                 /\ \E t \in timers' :
                       /\ t.kind = "insertFeedback" /\ t.due = now' + INSERT_FEEDBACK_MS
                       /\ feedbackTimeout' = <<t.id>>
       /\ Fires("insertFeedback")
            => IF currentState = "inserting"
               THEN /\ lastOp'.ops[1] = Op("widget", "idle", "")
                    /\ lastOp'.ops[2] = Op("transition", "insertion_complete", "inserting")
                    /\ currentState' = "idle" /\ widgetState' = "idle"
               ELSE lastOp'.ops = <<>> /\ UNCHANGED <<currentState, widgetState>>]_vars

C16_Witness ==
    /\ lastOp.handler = "insertFeedback" /\ lastOp.entry = "inserting"
    /\ lastOp.ops[2] = Op("transition", "insertion_complete", "inserting")
    /\ currentState = "idle" /\ widgetState = "idle"
    /\ now = 1 + minRecordingDuration + INSERT_FEEDBACK_MS

IsCrashSignal == inputs' = inputs + 1 /\ lastOp'.handler = "crash"

\* C17: after the crash handler has run, in whatever state the crash came,
\* the machine is in idle with no recording in flight, and no watchdog or
\* feedback timer is armed any more.
C17_CrashRecovery ==
    [][IsCrashSignal
         => /\ currentState' = "idle" /\ recordingStartTime' = <<>>
            /\ isRecording' = FALSE
            /\ \A t \in timers' :
                  t.kind \notin {"watchdog", "watchdogGrace", "errorFeedback",
                                 "insertFeedback"}]_vars

\* C18: a machine in processing or inserting is eventually in idle, given
\* that armed timers fire and the insertion's OS calls return.
C18_ResolvesToIdle ==
    (currentState \in {"processing", "inserting"}) ~> (currentState = "idle")

C18_Witness ==
    /\ lastOp.handler = "watchdogGrace" /\ lastOp.entry = "processing"
    /\ currentState = "idle" /\ inputs = 3
    /\ timers = {} /\ pending = EmptyBag /\ feedbackTimeout = <<>>

\* The binding mechanisms that deliver the hotkey right now: the OS shortcuts
\* held, and the low-level listener when one is attached or attaching.
LiveBindings ==
    shortcuts \cup (IF keyspy \in {"attaching", "live"} THEN {"<listener>"} ELSE {})

BindingFor(accelerator) ==
    IF isFnAccelerator(accelerator) THEN "<listener>" ELSE accelerator

\* C19: after any sequence of register, updateConfig and unregister calls at
\* most one binding is live: one OS shortcut or the low-level listener.
C19_ExclusiveBinding == Cardinality(LiveBindings) <= 1

IsUpdateConfigCall == inputs' = inputs + 1 /\ lastOp'.handler = "updateConfig"

\* C20: updateConfig(partial) leaves config as the old one overlaid with the
\* partial and stores it; when the merged config is disabled no binding is
\* live afterwards and isRegistered is false; when it is enabled and the call
\* returns true, the one live binding is the merged accelerator's.
C20_UpdateConfig ==
    [][IsUpdateConfigCall
         => LET arg == lastOp'.ops[1]
                merged == [accelerator |-> IF arg.a = "<none>" THEN config.accelerator
                                           ELSE arg.a,
                           enabled |-> IF arg.b = "<none>" THEN config.enabled
                                       ELSE arg.b = "true"]
            IN  /\ config' = merged
                /\ store' = <<merged>>
                /\ IF ~merged.enabled
                   THEN LiveBindings' = {} /\ ~isRegistered'
                   ELSE lastOp'.ret = "true"
                          => /\ isRegistered'
                             /\ LiveBindings' = {BindingFor(merged.accelerator)}]_vars

IsKeyEvent(name, state) ==
    /\ inputs' = inputs /\ lastOp'.handler = "key"
    /\ lastOp'.ops[1] = Op("keyEvent", name, state)

KeyEmits(ops) ==
    SelectSeq(ops, LAMBDA o : o.op = "emit" /\ o.a \in {"press", "release"})

\* C21: a DOWN of the special key emits press exactly when the key was not
\* held, and marks it held; a DOWN while it is held emits nothing; an UP emits
\* release and marks it not held; other keys emit nothing. The key stops being
\* marked held only by an UP or by a call that replaces the listener, so two
\* presses of one listener have a release between them.
C21_FnDeduplication ==
    [][/\ \A name \in KeyNames :
            /\ IsKeyEvent(name, "DOWN")
                 => IF isFn(name) /\ ~fnPressed
                    THEN /\ KeyEmits(lastOp'.ops) = <<Op("emit", "press", "")>>
                         /\ fnPressed'
                    ELSE /\ KeyEmits(lastOp'.ops) = <<>>
                         /\ UNCHANGED fnPressed
            /\ IsKeyEvent(name, "UP")
                 => IF isFn(name)
                    THEN /\ KeyEmits(lastOp'.ops) = <<Op("emit", "release", "")>>
                         /\ ~fnPressed'
                    ELSE /\ KeyEmits(lastOp'.ops) = <<>>
                         /\ UNCHANGED fnPressed
       /\ (fnPressed /\ ~fnPressed')
            => \/ \E name \in KeyNames : isFn(name) /\ IsKeyEvent(name, "UP")
               \/ lastOp'.handler \in {"register", "updateConfig", "unregister"}
       /\ (~fnPressed /\ fnPressed')
            => \E name \in KeyNames : isFn(name) /\ IsKeyEvent(name, "DOWN")]_vars

C21_Witness ==
    /\ lastOp.handler = "key" /\ fnPressed
    /\ lastOp.ops = <<Op("keyEvent", "Function", "DOWN")>>
    /\ lastOp.ret = "true"

\* The step is a registration attempt, or the settling of an attach, that
\* failed: it has emitted error.
IsRegistrationFailure ==
    /\ lastOp'.handler \in {"register", "updateConfig", "attach", "staleAttach"}
    /\ lastOp' # lastOp
    /\ \E i \in DOMAIN lastOp'.ops :
         lastOp'.ops[i].op = "emit" /\ lastOp'.ops[i].a = "error"

\* C22: a failed registration is reported by the error event and nothing is
\* thrown at the caller; after it isRegistered is false and no binding is live.
C22_RegistrationFailure ==
    [][IsRegistrationFailure
         => /\ lastOp'.ret # "throw"
            /\ ~isRegistered'
            /\ LiveBindings' = {}]_vars

\* The handler has announced the entry into the state.
Enters(ops, state) ==
    \E i \in DOMAIN ops : ops[i].op = "emit" /\ ops[i].a = state

Sends(ops, channel) == \E i \in DOMAIN ops : ops[i] = Op("send", channel, "")

\* C23: when the machine enters recording while the capture surface is
\* destroyed or loading, start-recording is not sent and the step ends with
\* the machine and the widgets at idle; when it enters processing while the
\* surface is not ready, stop-recording is not sent and the machine stays in
\* processing.
C23_ReadinessGuard ==
    [][/\ (Enters(lastOp'.ops, "recording") /\ ~isRendererReady(W))
            => /\ ~Sends(lastOp'.ops, "start-recording")
               /\ currentState' = "idle" /\ widgetState' = "idle"
       /\ (Enters(lastOp'.ops, "processing") /\ ~isRendererReady(W))
            => /\ ~Sends(lastOp'.ops, "stop-recording")
               /\ currentState' = "processing"]_vars

C23_Witness ==
    /\ lastOp.handler = "press.afterCapture"
    /\ Enters(lastOp.ops, "recording") /\ Calls(lastOp.ops, "reset") # <<>>
    /\ ~Sends(lastOp.ops, "start-recording")
    /\ loading /\ currentState = "idle" /\ widgetState = "idle"

\* C24: a hotkey press handled in error calls reset() first (the machine is
\* at idle when the handler suspends), then captures the foreground
\* application and submits nothing before the capture has returned; resumed,
\* the handler submits hotkey_press right after the capture's result, and
\* with a ready capture surface the machine ends in recording.
C24_ErrorRecovery ==
    [][/\ (lastOp'.handler = "press" /\ inputs' = inputs + 1 /\ currentState = "error")
            => /\ Len(lastOp'.ops) >= 3
               /\ lastOp'.ops[1] = Op("reset", "", "")
               /\ lastOp'.ops[2] = Op("emit", "idle", "error")
               /\ lastOp'.ops[Len(lastOp'.ops)] = Op("captureActiveApp", "", "")
               /\ Calls(lastOp'.ops, "transition") = <<>>
               /\ currentState' = "idle"
               /\ pending' = pending (+) SetToBag({Cont("capture", "press", "")})
       /\ (lastOp.handler = "press" /\ lastOp.entry = "error"
              /\ lastOp'.handler = "press.afterCapture")
            => /\ lastOp'.ops[1].op = "captured"
               /\ lastOp'.ops[2] = Op("transition", "hotkey_press", "idle")
               /\ isRendererReady(W) => currentState' = "recording"]_vars

\* The only signal so far was the press, handled in error.
C24_Witness ==
    /\ inputs = 1 /\ lastOp.handler = "press.afterCapture"
    /\ lastOp.ops[2] = Op("transition", "hotkey_press", "idle")
    /\ currentState = "recording" /\ widgetState = "recording"

\* Two handler results with the same fields left; of
\* the suspended continuations only the number is compared, they carry the
\* name of the handler they belong to.
SameOutcome(a, b) ==
    /\ a.currentState = b.currentState
    /\ a.recordingStartTime = b.recordingStartTime
    /\ a.isRecording = b.isRecording
    /\ a.processingTimeout = b.processingTimeout
    /\ a.feedbackTimeout = b.feedbackTimeout
    /\ a.timers = b.timers
    /\ a.widgetState = b.widgetState
    /\ a.capturedAppName = b.capturedAppName
    /\ BagCardinality(a.pending) = BagCardinality(b.pending)

\* What the step's handler did is what the other press handler would have
\* done in the same state.
SameAsOtherHandler ==
    LET other == IF lastOp'.handler = "press" THEN onWidgetToggle(W) ELSE onPress(W)
    IN  /\ other.ops = lastOp'.ops /\ other.ret = lastOp'.ret
        /\ SameOutcome(other, W')

IsActivationInput ==
    inputs' = inputs + 1 /\ lastOp'.handler \in {"press", "toggle", "release"}

CapturesInFlight == {c \in BagToSet(pending) : c.kind = "capture"}

\* C27: no press, toggle or release is handled while the foreground-app
\* capture of an earlier press is still in flight, that is, before that press
\* has submitted hotkey_press.
C27_PressOrdering ==
    [][IsActivationInput => CapturesInFlight = {}]_vars

\* C28: between two consecutive visits of the machine to idle at most one
\* completion is accepted and at most one text is delivered (written to the
\* clipboard for pasting).
C28_OneActivation ==
    activation.accepted <= 1 /\ activation.delivered <= 1

\* C29: whenever the machine comes back to idle (insertion done, too short
\* tap, error, watchdog or crash) the captured foreground application is
\* null.
C29_CapturedAppCleared ==
    [][(currentState # "idle" /\ currentState' = "idle")
         => capturedAppName' = <<>>]_vars

\* insert() has just finished after a paste simulation that failed.
PasteFailed(op) ==
    /\ op.handler = "complete.afterPaste"
    /\ \E i \in DOMAIN op.ops : op.ops[i] = Op("simulatePaste", "", "false")

\* C30: when the paste simulation fails, insert() shows the clipboard
\* notification and the handler pushes success, not error, to the widgets and
\* arms the feedback timer without moving the machine; a machine that is in
\* inserting at that point is in idle later on.
C30_PasteFailureSoft ==
    /\ [][PasteFailed(lastOp')
            => /\ Calls(lastOp'.ops, "notify") # <<>>
               /\ Calls(lastOp'.ops, "widget") = <<Op("widget", "success", "")>>
               /\ widgetState' = "success"
               /\ currentState' = currentState
               /\ \E t \in timers' \ timers :
                     t.kind = "insertFeedback" /\ feedbackTimeout' = <<t.id>>]_vars
    /\ (PasteFailed(lastOp) /\ currentState = "inserting") ~> (currentState = "idle")

C30_Witness ==
    /\ PasteFailed(lastOp) /\ lastOp.entry = "inserting"
    /\ currentState = "inserting" /\ widgetState = "success"
    /\ capturedAppName = <<>> /\ feedbackTimeout # <<>>
    /\ activation.accepted = 1 /\ activation.delivered = 1

\* C31: whenever the widgets show error they are later pushed another
\* status, given only that armed timers fire and OS calls return.
C31_ErrorFeedbackClears ==
    (widgetState = "error") ~> (widgetState # "error")

\* The i-th logged call announces a state change out of a state other than
\* idle.
IsChangeFromNonIdle(ops, i) ==
    ops[i].op = "emit" /\ ops[i].b \in RecordingState \ {"idle"}

\* The listener serving the i-th logged call, an emit, sends the capture
\* surface reset-recording-state.
ResetSentAfter(ops, i) ==
    \E j \in DOMAIN ops :
       /\ j > i /\ ops[j] = Op("send", "reset-recording-state", "")
       /\ \A k \in (i + 1)..j : ops[k].op # "emit"

\* C32 as stated: every state change whose previous state is not idle sends
\* reset-recording-state to a capture surface that is ready.
C32_ResetOnEveryChange ==
    [][isRendererReady(W)
         => \A i \in DOMAIN lastOp'.ops :
               IsChangeFromNonIdle(lastOp'.ops, i) => ResetSentAfter(lastOp'.ops, i)]_vars

\* C32, amended: a state change whose previous state is not idle sends
\* reset-recording-state exactly when it is a change into idle and the
\* capture surface is ready.
C32_ResetOnEnteringIdle ==
    [][\A i \in DOMAIN lastOp'.ops :
          IsChangeFromNonIdle(lastOp'.ops, i)
            => (ResetSentAfter(lastOp'.ops, i)
                  <=> (lastOp'.ops[i].a = "idle" /\ isRendererReady(W)))]_vars

C32_Witness ==
    /\ lastOp.handler = "release" /\ lastOp.entry = "recording"
    /\ Len(lastOp.ops) >= 2 /\ lastOp.ops[2] = Op("emit", "idle", "recording")
    /\ ResetSentAfter(lastOp.ops, 2)
    /\ currentState = "idle"

\* The statuses the handler sent to the window of display d.
SentTo(ops, d) ==
    SelectSeq(ops, LAMBDA o : o.op = "widget-state-update" /\ o.a = d)

\* C33: when the content of a window that is not destroyed finishes
\* loading, the window is sent the current status once if it was created
\* while the status was not idle, and nothing if it was created in idle.
C33_RetroactivePush ==
    [][\A d \in Displays :
          (lastOp'.handler = "did-finish-load" /\ d \in DOMAIN widgets
             /\ ~widgets[d].loaded /\ widgets'[d].loaded /\ ~widgets[d].destroyed)
            => SentTo(lastOp'.ops, d)
                 = IF widgets[d].createdIn # "idle"
                   THEN <<Op("widget-state-update", d, widgetState)>> ELSE <<>>]_vars

C33_Witness ==
    /\ lastOp.handler = "did-finish-load"
    /\ lastOp.ops = <<Op("widget-state-update", "d2", "processing")>>
    /\ "d2" \in DOMAIN widgets /\ widgets["d2"].loaded
    /\ widgets["d2"].createdIn = "recording"

\* The parts of the accelerator the last validation was given, trimmed.
ValidatedParts == [i \in DOMAIN lastOp.ops |-> TokenTrim(lastOp.ops[i].a)]

\* The special always-on key on its own, in any case.
IsFnAlone(parts) == Len(parts) = 1 /\ TokenToUpperCase(parts[1]) = "FN"

\* Known modifier tokens followed by one terminal key token from keys.
IsModifiersThenKey(parts, keys) ==
    /\ Len(parts) >= 1
    /\ parts[Len(parts)] \in keys
    /\ \A i \in 1..(Len(parts) - 1) : parts[i] \in validModifiers

\* The key tokens that are known as written or once upper-cased.
KeysInEitherCase == {k \in {TokenTrim(t) : t \in RawTokens} :
                        k \in validKeys \/ TokenToUpperCase(k) \in validKeys}

\* C34 as stated: validateAccelerator accepts exactly the special key alone
\* and the sequences of known modifier tokens followed by one known
\* terminal key token.
C34_ValidatesExactTokens ==
    lastOp.handler = "validateAccelerator"
      => (lastOp.ret = "true"
            <=> (IsFnAlone(ValidatedParts) \/ IsModifiersThenKey(ValidatedParts, validKeys)))

\* C34, amended: the terminal key token also counts as known when its
\* upper-cased form is a known key (a, f1), while modifiers and named keys
\* are matched as written (ctrl and space are rejected).
C34_ValidatesKnownTokens ==
    lastOp.handler = "validateAccelerator"
      => (lastOp.ret = "true"
            <=> (IsFnAlone(ValidatedParts)
                   \/ IsModifiersThenKey(ValidatedParts, KeysInEitherCase)))

C34_Witness ==
    /\ lastOp.handler = "validateAccelerator" /\ lastOp.ret = "true"
    /\ lastOp.ops = <<Op("part", "Ctrl", ""), Op("part", "Shift", ""), Op("part", "f1", "")>>

\* C35: whenever no handler is suspended, isRecording is true exactly when
\* the machine is in recording.
C35_IsRecordingMirror ==
    pending = EmptyBag => (isRecording <=> currentState = "recording")

\* C36: canTransition(trigger) leaves currentState and recordingStartTime
\* as they were, emits no stateChange, and returns true exactly when
\* (currentState, trigger) is in the transition table.
C36_CanTransitionPure ==
    [][\A trigger \in StateTrigger :
         (lastOp'.handler = "canTransition"
            /\ lastOp'.ops[1] = Op("canTransition", trigger, currentState))
           => /\ currentState' = currentState
              /\ recordingStartTime' = recordingStartTime
              /\ Emits(lastOp'.ops) = <<>>
              /\ (lastOp'.ret = "true" <=> InTable(currentState, trigger))]_vars

\* A release asked about 100 ms into a recording: legal by the table, though
\* transition() would abandon the recording.
C36_Witness ==
    /\ lastOp.handler = "canTransition" /\ lastOp.ret = "true"
    /\ lastOp.ops = <<Op("canTransition", "hotkey_release", "recording")>>
    /\ currentState = "recording" /\ recordingStartTime # <<>>
    /\ Elapsed < minRecordingDuration

\* C37: the machine is never in the error state.
C37_ErrorUnreachable == currentState # "error"

\* The error trigger was accepted in processing and landed on idle.
C37_Witness ==
    /\ lastOp.handler = "transition" /\ lastOp.ret = "true"
    /\ lastOp.ops[1] = Op("transition", "error", "processing")
    /\ currentState = "idle"

\* C39: whenever the machine is idle, no handler is suspended and no timer
\* is armed, the last status pushed to the widgets is idle.
C39_WidgetConsistent ==
    (currentState = "idle" /\ pending = EmptyBag /\ timers = {})
        => widgetState = "idle"

\* C40: the application insert() restores focus to is the one the capture
\* at the start of the same activation returned; when that capture failed
\* or returned nothing, insert() restores focus to no application.
C40_FocusOfSameActivation ==
    [][\A i \in 1..Len(lastOp'.ops) :
         lastOp'.ops[i].op = "restoreFocus"
           => lastOp'.ops[i].a = (IF activation.captured = <<>> THEN "null"
                                  ELSE activation.captured[1])]_vars

\* C38: a deferred error timer or second-stage watchdog timer that fires
\* while the machine is in processing was not armed during an activation
\* that has ended since.
C38_NoStaleTimer ==
    [][(lastOp'.handler \in {"errorFeedback", "watchdogGrace"}
          /\ currentState = "processing")
         => \A t \in timers \ timers' :
              (t.kind = lastOp'.handler /\ \A u \in timers : u.due >= t.due)
                 => t \notin activation.stale]_vars

====
